---- MODULE Spec2Model ----
(***************************************************************************)
(* Model of pilot/pkg/bootstrap/certcontroller.go:                         *)
(*   Server.initCertController  - extracts the managed certificates of the *)
(*       mesh config, constructs the Chiron controller and registers the   *)
(*       start function that runs it in a goroutine;                       *)
(*   Server.initDNSCerts        - provisions the K8S-signed DNS            *)
(*       certificate of Istiod and saves it under dnsCertDir.              *)
(*                                                                         *)
(* A Go string is a sequence of tokens (a token is a run of characters     *)
(* holding no separator, or one of the separators "." and ","), so that    *)
(* strings.Split, strings.Join, + and len are computed, not assumed.       *)
(***************************************************************************)
EXTENDS Integers, Sequences, FiniteSets, TLC

VARIABLES
    \* ---- file system under dnsCertDir
    dirExists,      \* dnsCertDir exists
    keyFile,        \* content of dnsKeyFile, NoFile when absent
    certFile,       \* content of dnsCertFile, NoFile when absent
    \* ---- initDNSCerts: the running (or last) invocation
    dnsPc,          \* position: "idle" | "sign" | "mkdir" | "writeKey" | "writeCert"
    hostname,       \* argument of the invocation
    parts,          \* strings.Split(hostname, ".")
    names,          \* names in the Istiod cert
    signed,         \* (certChain, keyPEM) returned by GenKeyCertK8sCA, NoCert before
    dnsRet,         \* returned error: "none" (not returned), "nil", or an error kind
    dnsTrace,       \* external calls made by the invocation, in order
    signCalls,      \* arguments of the GenKeyCertK8sCA calls of the invocation
    atEntry,        \* <<dirExists, keyFile, certFile>> when the invocation started
    signCount,      \* certificates issued so far by the K8S CA
    dnsCalls,       \* invocations of initDNSCerts so far
    \* ---- initCertController and the start function it registers
    certController, \* s.certController: NilController or the constructed controller
    startFuncs,     \* s.startFuncs: registered start functions, in order
    ctlCalled,      \* initCertController has been invoked
    ctlArgs,        \* its inputs, once invoked: the mesh certificates and args.Namespace
    ctlRet,         \* returned error: "none", "nil" or "ConstructionError"
    ctorCalls,      \* calls of chiron.NewWebhookController, in order
    hookCalls,      \* invocations of the registered start function
    tasks,          \* goroutines spawned by the start function
    stopClosed      \* stop channels that have been closed

fsVars  == <<dirExists, keyFile, certFile>>
dnsVars == <<dnsPc, hostname, parts, names, signed, dnsRet, dnsTrace, signCalls,
             atEntry, signCount, dnsCalls>>
ctlVars == <<certController, startFuncs, ctlCalled, ctlArgs, ctlRet, ctorCalls,
             hookCalls, tasks, stopClosed>>
vars    == <<fsVars, dnsVars, ctlVars>>

----------------------------------------------------------------------------
\* Bounds of the model.
MaxSegs     == 2    \* dot-separated segments of a hostname other than the service names
MaxDNSCalls == 2    \* invocations of initDNSCerts
MaxCerts    == 2    \* entries of the mesh certificate list
MaxStarts   == 1    \* invocations of the registered start function

----------------------------------------------------------------------------
\* Go strings as token sequences.
Dot   == "."
Comma == ","
Empty == <<>>

Str(t) == <<t>>

RECURSIVE SplitFrom(_, _, _, _)
SplitFrom(s, sep, cur, acc) ==
    IF s = <<>> THEN Append(acc, cur)
    ELSE IF Head(s) = sep
         THEN SplitFrom(Tail(s), sep, <<>>, Append(acc, cur))
         ELSE SplitFrom(Tail(s), sep, Append(cur, Head(s)), acc)

\* strings.Split(s, sep): the substrings between the separators, n+1 of them
\* for n separators (one, the empty string, for the empty string).
Split(s, sep) == SplitFrom(s, sep, <<>>, <<>>)

RECURSIVE Join(_, _)
\* strings.Join(elems, sep)
Join(elems, sep) ==
    IF Len(elems) = 0 THEN <<>>
    ELSE IF Len(elems) = 1 THEN elems[1]
    ELSE elems[1] \o <<sep>> \o Join(Tail(elems), sep)

Range(f) == {f[i] : i \in DOMAIN f}

----------------------------------------------------------------------------
\* Constants of the package.
defaultCACertPath == Join(<<Str("/var/run/secrets/kubernetes"), Str("io/serviceaccount/ca"),
                            Str("crt")>>, Dot)
IstioPilotSvc == Join(<<Str("istio-pilot"), Str("istio-system"), Str("svc")>>, Dot)
IstiodSvc     == Join(<<Str("istiod"), Str("istio-system"), Str("svc")>>, Dot)
CsrSecretSuffix == <<Dot, "csr", Dot, "secret">>

\* An absent file, and the values of the locals before the signing call.
NoFile == <<"absent">>
NoCert == [certChain |-> <<"unset">>, keyPEM |-> <<"unset">>]

\* Hostnames handed to initDNSCerts: the two service names, and up to MaxSegs
\* labels joined by dots, a label being empty or a label of the service names.
Labels == {Empty, Str("istiod"), Str("istio-pilot"), Str("istio-system"), Str("svc")}
Hostnames ==
    {IstioPilotSvc, IstiodSvc}
    \cup {Join(segs, Dot) : segs \in UNION {[1..n -> Labels] : n \in 1..MaxSegs}}

\* The n-th certificate issued by the K8S CA.
CertChainOf(n) == <<"certChain", n>>
KeyPEMOf(n)    == <<"keyPEM", n>>
\* Content of a user-mounted file, and of a file whose write failed part-way.
Mounted   == <<"mounted">>
Truncated == <<"truncated">>

Call(op, ok) == [op |-> op, ok |-> ok]
Ops(trace)   == [i \in DOMAIN trace |-> trace[i].op]
CountOp(trace, op) == Cardinality({i \in DOMAIN trace : trace[i].op = op})

----------------------------------------------------------------------------
\* initDNSCerts

\* (variant: the check made on dnsCertFile instead of dnsKeyFile)
CertFileExists == certFile # NoFile

\* (variant: the test of the error of os.Stat is inverted)
KeyFileMissing == keyFile = NoFile

\* os.Stat(dnsKeyFile) returns no error: the key file is there.
KeyFileExists == keyFile # NoFile

\* (variant: only an empty split is refused)
ValidPartsOffByOne(p) == ~(Len(p) < 1)

\* len(parts) < 2 is refused.
ValidParts(p) == ~(Len(p) < 2)

\* (variant: the old service name gets the new one, the new one gets nothing)
CertNamesOneWay(h) ==
    IF h = IstioPilotSvc THEN <<h, IstiodSvc>> ELSE <<h>>

\* (variant: the service is recognised by its first label alone)
CertNamesByService(h) ==
    LET n0 == <<h>>
        n1 == IF Len(h) > 0 /\ h[1] = "istio-pilot" THEN Append(n0, IstiodSvc) ELSE n0
        n2 == IF Len(h) > 0 /\ h[1] = "istiod" THEN Append(n1, IstioPilotSvc) ELSE n1
    IN  n2

\* Names in the Istiod cert: the hostname first, then the other service name
\* when the hostname is one of the two migration names.
CertNames(h) ==
    LET n0 == <<h>>
        n1 == IF h = IstioPilotSvc THEN Append(n0, IstiodSvc) ELSE n0
        n2 == IF h = IstiodSvc THEN Append(n1, IstioPilotSvc) ELSE n1
    IN  n2

\* (variant: the namespace is the last part of the hostname)
SignRequestLastPart(ns, p) ==
    [dnsName         |-> Join(ns, Comma),
     secretName      |-> p[1] \o CsrSecretSuffix,
     secretNamespace |-> p[Len(p)],
     caFilePath      |-> defaultCACertPath]

\* Arguments of chiron.GenKeyCertK8sCA.
SignRequest(ns, p) ==
    [dnsName         |-> Join(ns, Comma),
     secretName      |-> p[1] \o CsrSecretSuffix,
     secretNamespace |-> p[2],
     caFilePath      |-> defaultCACertPath]

\* (variant: the hostname check comes before the key file check)
InitDNSCertsValidateFirst(h) ==
    /\ dnsPc = "idle"
    /\ dnsCalls < MaxDNSCalls
    /\ dnsCalls' = dnsCalls + 1
    /\ hostname' = h
    /\ atEntry' = fsVars
    /\ signed' = NoCert
    /\ signCalls' = <<>>
    /\ IF ~ValidParts(Split(h, Dot))
       THEN /\ dnsTrace' = <<>>
            /\ parts' = Split(h, Dot)
            /\ names' = <<>>
            /\ dnsRet' = "InvalidHostnameError"
            /\ dnsPc' = "idle"
       ELSE IF KeyFileExists
       THEN /\ dnsTrace' = <<Call("stat", TRUE)>>
            /\ parts' = Split(h, Dot)
            /\ names' = <<>>
            /\ dnsRet' = "nil"
            /\ dnsPc' = "idle"
       ELSE /\ dnsTrace' = <<Call("stat", FALSE)>>
            /\ parts' = Split(h, Dot)
            /\ names' = CertNames(h)
            /\ dnsRet' = "none"
            /\ dnsPc' = "sign"
    /\ UNCHANGED <<fsVars, signCount, ctlVars>>

\* Entry of initDNSCerts(h): the key file check, the hostname check and the
\* computation of the names, up to the call of the signing backend.
InitDNSCerts(h) ==
    /\ dnsPc = "idle"
    /\ dnsCalls < MaxDNSCalls
    /\ dnsCalls' = dnsCalls + 1
    /\ hostname' = h
    /\ atEntry' = fsVars
    /\ signed' = NoCert
    /\ signCalls' = <<>>
    /\ IF KeyFileExists
       THEN /\ dnsTrace' = <<Call("stat", TRUE)>>
            /\ parts' = <<>>
            /\ names' = <<>>
            /\ dnsRet' = "nil"
            /\ dnsPc' = "idle"
       ELSE /\ dnsTrace' = <<Call("stat", FALSE)>>
            /\ parts' = Split(h, Dot)
            /\ IF ValidParts(parts')
               THEN /\ names' = CertNames(h)
                    /\ dnsRet' = "none"
                    /\ dnsPc' = "sign"
               ELSE /\ names' = <<>>
                    /\ dnsRet' = "InvalidHostnameError"
                    /\ dnsPc' = "idle"
    /\ UNCHANGED <<fsVars, signCount, ctlVars>>

\* (variant: the error of the signing call is not looked at)
GenKeyCertK8sCAIgnoreErr ==
    /\ dnsPc = "sign"
    /\ signCalls' = Append(signCalls, SignRequest(names, parts))
    /\ \E ok \in BOOLEAN :
        /\ dnsTrace' = Append(dnsTrace, Call("sign", ok))
        /\ dnsPc' = "mkdir"
        /\ IF ok
           THEN /\ signCount' = signCount + 1
                /\ signed' = [certChain |-> CertChainOf(signCount + 1),
                              keyPEM    |-> KeyPEMOf(signCount + 1)]
           ELSE UNCHANGED <<signCount, signed>>
    /\ UNCHANGED <<fsVars, hostname, parts, names, atEntry, dnsCalls, dnsRet, ctlVars>>

\* chiron.GenKeyCertK8sCA(..): the K8S CA issues a fresh certificate or fails.
GenKeyCertK8sCA ==
    /\ dnsPc = "sign"
    /\ signCalls' = Append(signCalls, SignRequest(names, parts))
    /\ \E ok \in BOOLEAN :
        /\ dnsTrace' = Append(dnsTrace, Call("sign", ok))
        /\ IF ok
           THEN /\ signCount' = signCount + 1
                /\ signed' = [certChain |-> CertChainOf(signCount + 1),
                              keyPEM    |-> KeyPEMOf(signCount + 1)]
                /\ dnsPc' = "mkdir"
                /\ UNCHANGED dnsRet
           ELSE /\ dnsRet' = "SigningError"
                /\ dnsPc' = "idle"
                /\ UNCHANGED <<signCount, signed>>
    /\ UNCHANGED <<fsVars, hostname, parts, names, atEntry, dnsCalls, ctlVars>>

\* (variant: the error of os.MkdirAll is not looked at)
MkdirAllIgnoreErr ==
    /\ dnsPc = "mkdir"
    /\ \E ok \in BOOLEAN :
        /\ dnsTrace' = Append(dnsTrace, Call("mkdir", ok))
        /\ dirExists' = (dirExists \/ ok)
        /\ dnsPc' = "writeKey"
    /\ UNCHANGED <<keyFile, certFile, hostname, parts, names, signed, signCalls,
                   atEntry, signCount, dnsCalls, dnsRet, ctlVars>>

\* os.MkdirAll(dnsCertDir, 0600)
MkdirAll ==
    /\ dnsPc = "mkdir"
    /\ \E ok \in BOOLEAN :
        /\ dnsTrace' = Append(dnsTrace, Call("mkdir", ok))
        /\ IF ok
           THEN /\ dirExists' = TRUE
                /\ dnsPc' = "writeKey"
                /\ UNCHANGED dnsRet
           ELSE /\ dnsRet' = "PersistenceError"
                /\ dnsPc' = "idle"
                /\ UNCHANGED dirExists
    /\ UNCHANGED <<keyFile, certFile, hostname, parts, names, signed, signCalls,
                   atEntry, signCount, dnsCalls, ctlVars>>

\* What ioutil.WriteFile(f, data, 0600) leaves in f: the data, or, on an error,
\* the file as it was (it could not be opened) or a truncated file (it was opened,
\* and the write failed).
WriteFileResults(old, data, ok) ==
    IF ok THEN {data} ELSE {old, Truncated}

\* (variant: the certificate chain is written to the key file)
WriteKeyFileChain ==
    /\ dnsPc = "writeKey"
    /\ \E ok \in BOOLEAN :
        /\ dnsTrace' = Append(dnsTrace, Call("writeKey", ok))
        /\ keyFile' \in WriteFileResults(keyFile, signed.certChain, ok)
        /\ IF ok
           THEN /\ dnsPc' = "writeCert"
                /\ UNCHANGED dnsRet
           ELSE /\ dnsRet' = "PersistenceError"
                /\ dnsPc' = "idle"
    /\ UNCHANGED <<dirExists, certFile, hostname, parts, names, signed, signCalls,
                   atEntry, signCount, dnsCalls, ctlVars>>

\* (variant: the error of the key write is not looked at)
WriteKeyFileIgnoreErr ==
    /\ dnsPc = "writeKey"
    /\ \E ok \in BOOLEAN :
        /\ dnsTrace' = Append(dnsTrace, Call("writeKey", ok))
        /\ keyFile' \in WriteFileResults(keyFile, signed.keyPEM, ok)
        /\ dnsPc' = "writeCert"
    /\ UNCHANGED <<dirExists, certFile, hostname, parts, names, signed, signCalls,
                   atEntry, signCount, dnsCalls, dnsRet, ctlVars>>

\* ioutil.WriteFile(dnsKeyFile, keyPEM, 0600)
WriteKeyFile ==
    /\ dnsPc = "writeKey"
    /\ \E ok \in BOOLEAN :
        /\ dnsTrace' = Append(dnsTrace, Call("writeKey", ok))
        /\ keyFile' \in WriteFileResults(keyFile, signed.keyPEM, ok)
        /\ IF ok
           THEN /\ dnsPc' = "writeCert"
                /\ UNCHANGED dnsRet
           ELSE /\ dnsRet' = "PersistenceError"
                /\ dnsPc' = "idle"
    /\ UNCHANGED <<dirExists, certFile, hostname, parts, names, signed, signCalls,
                   atEntry, signCount, dnsCalls, ctlVars>>

\* ioutil.WriteFile(dnsCertFile, certChain, 0600), and the return.
WriteCertFile ==
    /\ dnsPc = "writeCert"
    /\ \E ok \in BOOLEAN :
        /\ dnsTrace' = Append(dnsTrace, Call("writeCert", ok))
        /\ certFile' \in WriteFileResults(certFile, signed.certChain, ok)
        /\ dnsRet' = IF ok THEN "nil" ELSE "PersistenceError"
        /\ dnsPc' = "idle"
    /\ UNCHANGED <<dirExists, keyFile, hostname, parts, names, signed, signCalls,
                   atEntry, signCount, dnsCalls, ctlVars>>

InitFS ==
    /\ dirExists \in BOOLEAN
    /\ keyFile \in {NoFile, Mounted}
    /\ certFile \in {NoFile, Mounted}
    /\ (keyFile # NoFile \/ certFile # NoFile) => dirExists

InitDNS ==
    /\ dnsPc = "idle"
    /\ hostname = Empty
    /\ parts = <<>>
    /\ names = <<>>
    /\ signed = NoCert
    /\ dnsRet = "none"
    /\ dnsTrace = <<>>
    /\ signCalls = <<>>
    /\ atEntry = fsVars
    /\ signCount = 0
    /\ dnsCalls = 0

NextDNS ==
    \/ \E h \in Hostnames : InitDNSCerts(h)
    \/ GenKeyCertK8sCA
    \/ MkdirAll
    \/ WriteKeyFile
    \/ WriteCertFile

----------------------------------------------------------------------------
\* initCertController

\* defaultCertGracePeriodRatio = 0.5, as a fraction; defaultMinCertGracePeriod
\* = 10 * time.Minute, in minutes.
defaultCertGracePeriodRatio == [num |-> 1, den |-> 2]
defaultMinCertGracePeriod   == 10

\* Inputs: the certificates of the mesh config (a nil list, or up to MaxCerts
\* entries) and args.Namespace.
SvcA == Join(<<Str("svc"), Str("a")>>, Dot)
SvcB == Join(<<Str("svc"), Str("b")>>, Dot)
\* Entries: with and without DNS names (none, one that is empty, two that are
\* empty, one, two), with and without a secret name.
Entry(dns, secret) == [dnsNames |-> dns, secretName |-> secret]
CertEntries ==
    {Entry(<<SvcA>>, Str("cert-a")),
     Entry(<<SvcA, SvcB>>, Str("cert-b")),
     Entry(<<Empty, Empty>>, Str("cert-a")),
     Entry(<<>>, Str("cert-b")),
     Entry(<<Empty>>, Str("cert-a")),
     Entry(<<SvcA>>, Empty),
     Entry(<<>>, Empty)}
NilCertificates == [isNil |-> TRUE, items |-> <<>>]
Certificates(items) == [isNil |-> FALSE, items |-> items]
MeshCertificates ==
    {NilCertificates}
    \cup {Certificates(items) : items \in UNION {[1..n -> CertEntries] : n \in 0..MaxCerts}}
Namespaces == {Str("ns1"), Str("ns2")}
StopChans  == {"stopA", "stopB"}

\* s.certController: nil, or the controller returned by the n-th call of
\* chiron.NewWebhookController.
NilController == <<>>
Controller(n) == <<n>>
NoStop == "none"

\* The start function registered by initCertController, and any other one.
CertControllerStart == "certControllerStart"
OtherStart          == "otherStart"

\* (variant: only the nil list returns early)
NoCertificatesNilOnly(certs) == certs.isNil

\* meshConfig.GetCertificates() == nil || len(meshConfig.GetCertificates()) == 0
NoCertificates(certs) == certs.isNil \/ Len(certs.items) = 0

NoRequests == [secretNames |-> <<>>, dnsNames |-> <<>>, namespaces |-> <<>>]

\* (variant: the secret name is not looked at)
ExtractOneAnySecret(acc, c, ns) ==
    LET name == Join(c.dnsNames, Comma)
    IN  IF Len(name) = 0 THEN acc
        ELSE [secretNames |-> Append(acc.secretNames, c.secretName),
              dnsNames    |-> Append(acc.dnsNames, name),
              namespaces  |-> Append(acc.namespaces, ns)]

\* (variant: the list of DNS names is tested, not the joined name)
ExtractOneByCount(acc, c, ns) ==
    LET name == Join(c.dnsNames, Comma)
    IN  IF Len(c.dnsNames) = 0 THEN acc
        ELSE IF Len(c.secretName) > 0
             THEN [secretNames |-> Append(acc.secretNames, c.secretName),
                   dnsNames    |-> Append(acc.dnsNames, name),
                   namespaces  |-> Append(acc.namespaces, ns)]
             ELSE acc

\* (variant: the namespace is appended before the secret name is looked at)
ExtractOneNamespaceFirst(acc, c, ns) ==
    LET name == Join(c.dnsNames, Comma)
    IN  IF Len(name) = 0 THEN acc
        ELSE IF Len(c.secretName) > 0
             THEN [secretNames |-> Append(acc.secretNames, c.secretName),
                   dnsNames    |-> Append(acc.dnsNames, name),
                   namespaces  |-> Append(acc.namespaces, ns)]
             ELSE [acc EXCEPT !.namespaces = Append(acc.namespaces, ns)]

\* One turn of the loop over the certificates: the entry c is appended to the
\* three lists when its joined DNS names and its secret name are not empty.
ExtractOne(acc, c, ns) ==
    LET name == Join(c.dnsNames, Comma)
    IN  IF Len(name) = 0 THEN acc
        ELSE IF Len(c.secretName) > 0
             THEN [secretNames |-> Append(acc.secretNames, c.secretName),
                   dnsNames    |-> Append(acc.dnsNames, name),
                   namespaces  |-> Append(acc.namespaces, ns)]
             ELSE acc

RECURSIVE ExtractFrom(_, _, _)
ExtractFrom(acc, certs, ns) ==
    IF Len(certs) = 0 THEN acc
    ELSE ExtractFrom(ExtractOne(acc, Head(certs), ns), Tail(certs), ns)

\* The loop over meshConfig.GetCertificates().
Extract(certs, ns) == ExtractFrom(NoRequests, certs.items, ns)

\* Arguments of chiron.NewWebhookController (the K8S clients left out).
ControllerArgs(req) ==
    [gracePeriodRatio |-> defaultCertGracePeriodRatio,
     minGracePeriod   |-> defaultMinCertGracePeriod,
     caCertPath       |-> defaultCACertPath,
     secretNames      |-> req.secretNames,
     dnsNames         |-> req.dnsNames,
     namespaces       |-> req.namespaces]

\* (variant: the start function is registered whatever the constructor returned)
StartFuncsAfterAnyResult(fns, ok) == Append(fns, CertControllerStart)

\* if err != nil { return ... }; s.addStartFunc(..): the start functions after
\* the constructor has returned.
StartFuncsAfter(fns, ok) ==
    IF ok THEN Append(fns, CertControllerStart) ELSE fns

\* initCertController(args): the whole function. The constructor succeeds or
\* fails; s.certController is assigned what it returns (nil on an error).
InitCertController(certs, ns) ==
    /\ ~ctlCalled
    /\ ctlCalled' = TRUE
    /\ ctlArgs' = <<[certificates |-> certs, namespace |-> ns]>>
    /\ IF NoCertificates(certs)
       THEN /\ ctlRet' = "nil"
            /\ UNCHANGED <<certController, startFuncs, ctorCalls>>
       ELSE LET call == ControllerArgs(Extract(certs, ns))
            IN  /\ ctorCalls' = Append(ctorCalls, call)
                /\ \E ok \in BOOLEAN :
                    /\ certController' = IF ok THEN Controller(Len(ctorCalls'))
                                               ELSE NilController
                    /\ startFuncs' = StartFuncsAfter(startFuncs, ok)
                    /\ ctlRet' = IF ok THEN "nil" ELSE "ConstructionError"
    /\ UNCHANGED <<hookCalls, tasks, stopClosed, fsVars, dnsVars>>

\* (variant: the start function runs the controller itself, and returns when
\* Run does)
StartFuncInline(i, stop) ==
    /\ i \in DOMAIN startFuncs
    /\ startFuncs[i] = CertControllerStart
    /\ Len(hookCalls) < MaxStarts
    /\ hookCalls' = Append(hookCalls, [stop |-> stop, ret |-> "none", ranLoop |-> TRUE])
    /\ UNCHANGED <<certController, startFuncs, ctlCalled, ctlArgs, ctlRet, ctorCalls,
                   tasks, stopClosed, fsVars, dnsVars>>

\* The registered start function, called with a stop channel: it starts a
\* goroutine and returns nil.
StartFunc(i, stop) ==
    /\ i \in DOMAIN startFuncs
    /\ startFuncs[i] = CertControllerStart
    /\ Len(hookCalls) < MaxStarts
    /\ tasks' = Append(tasks, [stop |-> stop, pc |-> "spawned",
                               runStop |-> NoStop, controller |-> NilController])
    /\ hookCalls' = Append(hookCalls, [stop |-> stop, ret |-> "nil", ranLoop |-> FALSE])
    /\ UNCHANGED <<certController, startFuncs, ctlCalled, ctlArgs, ctlRet, ctorCalls,
                   stopClosed, fsVars, dnsVars>>

\* (variant: Run is given a channel of its own, not the start function's)
GoroutineRunOwnStop(t) ==
    /\ t \in DOMAIN tasks
    /\ tasks[t].pc = "spawned"
    /\ tasks' = [tasks EXCEPT ![t] = [@ EXCEPT !.pc = "running",
                                               !.runStop = "stopOwn",
                                               !.controller = certController]]
    /\ UNCHANGED <<certController, startFuncs, ctlCalled, ctlArgs, ctlRet, ctorCalls,
                   hookCalls, stopClosed, fsVars, dnsVars>>

\* (variant: the running controller stores a certificate in the key file of
\* the certificate directory)
GoroutineRunWritesKey(t) ==
    /\ t \in DOMAIN tasks
    /\ tasks[t].pc = "spawned"
    /\ tasks' = [tasks EXCEPT ![t] = [@ EXCEPT !.pc = "running",
                                               !.runStop = tasks[t].stop,
                                               !.controller = certController]]
    /\ dirExists' = TRUE
    /\ keyFile' = Mounted
    /\ UNCHANGED <<certController, startFuncs, ctlCalled, ctlArgs, ctlRet, ctorCalls,
                   hookCalls, stopClosed, certFile, dnsVars>>

\* The goroutine: s.certController.Run(stop), with the server's controller at
\* that time and the stop channel of the start function's call.
GoroutineRun(t) ==
    /\ t \in DOMAIN tasks
    /\ tasks[t].pc = "spawned"
    /\ tasks' = [tasks EXCEPT ![t] = [@ EXCEPT !.pc = "running",
                                               !.runStop = tasks[t].stop,
                                               !.controller = certController]]
    /\ UNCHANGED <<certController, startFuncs, ctlCalled, ctlArgs, ctlRet, ctorCalls,
                   hookCalls, stopClosed, fsVars, dnsVars>>

\* WebhookController.Run returns: it runs until its stop channel is closed;
\* the goroutine ends with it.
RunReturn(t) ==
    /\ t \in DOMAIN tasks
    /\ tasks[t].pc = "running"
    /\ tasks[t].runStop \in stopClosed
    /\ tasks' = [tasks EXCEPT ![t] = [@ EXCEPT !.pc = "exited"]]
    /\ UNCHANGED <<certController, startFuncs, ctlCalled, ctlArgs, ctlRet, ctorCalls,
                   hookCalls, stopClosed, fsVars, dnsVars>>

\* The owner of a stop channel closes it.
CloseStop(c) ==
    /\ c \notin stopClosed
    /\ stopClosed' = stopClosed \cup {c}
    /\ UNCHANGED <<certController, startFuncs, ctlCalled, ctlArgs, ctlRet, ctorCalls,
                   hookCalls, tasks, fsVars, dnsVars>>

\* The server before initCertController: no controller, and a start function
\* registered by another component.
InitCtl ==
    /\ certController = NilController
    /\ startFuncs = <<OtherStart>>
    /\ ctlCalled = FALSE
    /\ ctlArgs = <<>>
    /\ ctlRet = "none"
    /\ ctorCalls = <<>>
    /\ hookCalls = <<>>
    /\ tasks = <<>>
    /\ stopClosed = {}

NextCtl ==
    \/ \E certs \in MeshCertificates, ns \in Namespaces : InitCertController(certs, ns)
    \/ \E i \in 1..Len(startFuncs), c \in StopChans : StartFunc(i, c)
    \/ \E t \in 1..MaxStarts : GoroutineRun(t)
    \/ \E t \in 1..MaxStarts : RunReturn(t)
    \/ \E c \in StopChans : CloseStop(c)

----------------------------------------------------------------------------
Init == InitFS /\ InitDNS /\ InitCtl

Next == NextDNS \/ NextCtl

\* Both pipelines.
Spec == Init /\ [][Next]_vars

\* initDNSCerts alone.
SpecDNS == Init /\ [][NextDNS]_vars

\* initCertController and its start function alone, dnsCertDir being absent.
InitNoCertDir == Init /\ ~dirExists
SpecCtl == InitNoCertDir /\ [][NextCtl]_vars

\* initDNSCerts with no key file and no chain file at the start, the
\* certificate directory empty or not there.
InitEmptyCertDir == Init /\ keyFile = NoFile /\ certFile = NoFile
SpecDNSEmpty == InitEmptyCertDir /\ [][NextDNS]_vars

\* Both pipelines during one startup, in any interleaving of their steps: the
\* provisioning of the Istiod certificate for a service name or a name of one
\* segment, and the certificate controller for no entry, an entry that is
\* managed or one that is not.
BothHostnames == {IstiodSvc, Str("istiod")}
BothCertificates ==
    {NilCertificates,
     Certificates(<<Entry(<<SvcA>>, Str("cert-a"))>>),
     Certificates(<<Entry(<<SvcA>>, Empty)>>)}
NextBoth ==
    \/ \E h \in BothHostnames : InitDNSCerts(h)
    \/ GenKeyCertK8sCA
    \/ MkdirAll
    \/ WriteKeyFile
    \/ WriteCertFile
    \/ \E certs \in BothCertificates : InitCertController(certs, Str("ns1"))
    \/ \E i \in 1..Len(startFuncs), c \in StopChans : StartFunc(i, c)
    \/ \E t \in 1..MaxStarts : GoroutineRun(t)
    \/ \E t \in 1..MaxStarts : RunReturn(t)
    \/ \E c \in StopChans : CloseStop(c)

SpecBoth == Init /\ [][NextBoth]_vars

\* The Go scheduler runs every goroutine that can run, and Run returns once
\* its stop channel is closed.
Fairness ==
    \A t \in 1..MaxStarts : WF_vars(GoroutineRun(t)) /\ WF_vars(RunReturn(t))

FairSpecCtl == SpecCtl /\ Fairness

\* initDNSCerts runs its statements one after the other on the calling
\* thread: each call it makes returns, with a result or with an error.
FairnessDNS ==
    /\ WF_vars(GenKeyCertK8sCA)
    /\ WF_vars(MkdirAll)
    /\ WF_vars(WriteKeyFile)
    /\ WF_vars(WriteCertFile)

FairSpecDNS == SpecDNS /\ FairnessDNS


----------------------------------------------------------------------------
\* Vocabulary of the properties.

\* Number of dot-separated segments of a hostname.
Segments(h) == 1 + Cardinality({i \in DOMAIN h : h[i] = Dot})

\* The names a comma-joined list of names stands for.
NamesIn(dnsName) == Split(dnsName, Comma)

EntryKeyFile == atEntry[2]
Invoked  == dnsCalls > 0
Returned == Invoked /\ dnsPc = "idle"
NoWork ==
    /\ Ops(dnsTrace) = <<"stat">>
    /\ signCalls = <<>>
    /\ fsVars = atEntry

\* C1: whatever the hostname, an invocation that finds the key file present
\* has returned nil, has made no call of the signing backend and has created
\* or written nothing: the directory, the key file and the chain file are as
\* they were.
C1_SkipWhenKeyFileExists ==
    (Invoked /\ EntryKeyFile # NoFile) =>
        /\ dnsPc = "idle"
        /\ dnsRet = "nil"
        /\ NoWork

\* C1 witness: skipped with a hostname that has a single segment and a chain
\* file beside the key file.
C1_Witness ==
    /\ Invoked
    /\ EntryKeyFile # NoFile
    /\ Segments(hostname) < 2
    /\ certFile # NoFile
    /\ dnsRet = "nil"

\* C2, as claimed: from any state of the certificate directory, a hostname
\* of fewer than 2 segments fails with InvalidHostnameError, with no signing
\* call and nothing created or written.
C2_AsClaimed ==
    (Invoked /\ Segments(hostname) < 2) =>
        /\ dnsPc = "idle"
        /\ dnsRet = "InvalidHostnameError"
        /\ NoWork

\* C2, amended: when the key file is absent, a hostname of fewer than 2
\* segments fails with InvalidHostnameError, with no signing call and nothing
\* created or written (with the key file present the invocation is skipped
\* and returns nil, whatever the hostname).
C2_InvalidHostname ==
    (Invoked /\ Segments(hostname) < 2) =>
        /\ dnsPc = "idle"
        /\ NoWork
        /\ dnsRet = IF EntryKeyFile = NoFile THEN "InvalidHostnameError" ELSE "nil"

\* C2 witness: refused, the directory existing with a chain file and no key.
C2_Witness ==
    /\ Invoked
    /\ Segments(hostname) < 2
    /\ EntryKeyFile = NoFile
    /\ certFile # NoFile
    /\ dnsRet = "InvalidHostnameError"

ServiceNames == {IstioPilotSvc, IstiodSvc}

\* C3: when the signing request is made for either of the two service names,
\* the names sent are exactly the two service names, the hostname first.
C3_AliasingSymmetric ==
    (signCalls # <<>> /\ hostname \in ServiceNames) =>
        /\ Len(signCalls) = 1
        /\ Range(NamesIn(signCalls[1].dnsName)) = ServiceNames
        /\ Len(NamesIn(signCalls[1].dnsName)) = 2
        /\ NamesIn(signCalls[1].dnsName)[1] = hostname

\* C3 witness: the request made for the new service name.
C3_Witness ==
    /\ signCalls # <<>>
    /\ hostname = IstiodSvc
    /\ NamesIn(signCalls[1].dnsName) = <<IstiodSvc, IstioPilotSvc>>

\* C4: when the signing request is made for a hostname of at least 2 segments
\* that is neither service name, the only name sent is the hostname.
C4_NoAliasOtherwise ==
    (signCalls # <<>> /\ Segments(hostname) >= 2 /\ hostname \notin ServiceNames) =>
        /\ Len(signCalls) = 1
        /\ signCalls[1].dnsName = hostname
        /\ NamesIn(signCalls[1].dnsName) = <<hostname>>

\* C4 witness: the request made for istiod.istio-system, a service name less
\* its last label.
C4_Witness ==
    /\ signCalls # <<>>
    /\ hostname = Join(<<Str("istiod"), Str("istio-system")>>, Dot)
    /\ signCalls[1].dnsName = hostname

\* The entries of the mesh certificates that are to be managed: those with a
\* DNS name list that does not join to the empty string (two names or more,
\* or one name that is not empty) and with a secret name.
Managed(c) ==
    /\ \/ Len(c.dnsNames) >= 2
       \/ Len(c.dnsNames) = 1 /\ c.dnsNames[1] # Empty
    /\ c.secretName # Empty
ManagedOf(certs) == SelectSeq(certs.items, Managed)

GivenCerts     == ctlArgs[1].certificates
GivenNamespace == ctlArgs[1].namespace
HooksAtStart   == <<OtherStart>>
NothingStarted == hookCalls = <<>> /\ tasks = <<>>

\* C5: the constructor is handed one request for each managed entry and for
\* no other, in the order of the input, with the entry's secret name, its
\* comma-joined DNS names and the caller's namespace; no request has an
\* empty secret name or empty DNS names.
C5_Extraction ==
    ctorCalls # <<>> =>
        LET call == ctorCalls[1]
            want == ManagedOf(GivenCerts)
        IN  /\ call.secretNames = [i \in 1..Len(want) |-> want[i].secretName]
            /\ call.dnsNames    = [i \in 1..Len(want) |-> Join(want[i].dnsNames, Comma)]
            /\ call.namespaces  = [i \in 1..Len(want) |-> GivenNamespace]
            /\ \A i \in DOMAIN call.secretNames : call.secretNames[i] # Empty
            /\ \A i \in DOMAIN call.dnsNames : call.dnsNames[i] # Empty

\* C5 witness: {svc.a, cert-a} then {no DNS name, cert-b} in ns1 give the one
\* request {cert-a, svc.a, ns1}.
C5_Witness ==
    /\ ctorCalls # <<>>
    /\ GivenCerts.items = <<Entry(<<SvcA>>, Str("cert-a")), Entry(<<>>, Str("cert-b"))>>
    /\ GivenNamespace = Str("ns1")
    /\ ctorCalls[1].secretNames = <<Str("cert-a")>>
    /\ ctorCalls[1].dnsNames = <<SvcA>>
    /\ ctorCalls[1].namespaces = <<Str("ns1")>>

\* C6, as claimed: whenever no entry is managed, nothing is done: no
\* controller is constructed and no start function is registered.
C6_AsClaimed ==
    (ctlCalled /\ ManagedOf(GivenCerts) = <<>>) =>
        /\ ctorCalls = <<>>
        /\ certController = NilController
        /\ startFuncs = HooksAtStart

\* C6, amended: nothing is done when the certificate list is nil or empty;
\* when the list has entries and none is managed, the constructor is called
\* once, with three empty lists, and the start function is registered if and
\* only if the constructor succeeded.
C6_NoManagedEntry ==
    (ctlCalled /\ ManagedOf(GivenCerts) = <<>>) =>
        IF GivenCerts.isNil \/ GivenCerts.items = <<>>
        THEN /\ ctorCalls = <<>>
             /\ certController = NilController
             /\ startFuncs = HooksAtStart
        ELSE /\ Len(ctorCalls) = 1
             /\ ctorCalls[1].secretNames = <<>>
             /\ ctorCalls[1].dnsNames = <<>>
             /\ ctorCalls[1].namespaces = <<>>
             /\ \/ /\ ctlRet = "nil"
                   /\ certController = Controller(1)
                   /\ startFuncs = Append(HooksAtStart, CertControllerStart)
                \/ /\ ctlRet = "ConstructionError"
                   /\ certController = NilController
                   /\ startFuncs = HooksAtStart

\* C6 witness: a list whose entries are all left out (one with an empty DNS
\* name, one with no secret name), a controller constructed and running.
C6_Witness ==
    /\ ctlCalled
    /\ GivenCerts.items = <<Entry(<<Empty>>, Str("cert-a")), Entry(<<SvcA>>, Empty)>>
    /\ certController = Controller(1)
    /\ \E t \in DOMAIN tasks : tasks[t].pc = "running" /\ tasks[t].controller = Controller(1)

\* C7: with a nil or empty certificate list initCertController returns nil,
\* the constructor is not called, s.certController and the start functions
\* are as they were, and so nothing is ever started.
C7_EmptyConfig ==
    (ctlCalled /\ (GivenCerts.isNil \/ Len(GivenCerts.items) = 0)) =>
        /\ ctlRet = "nil"
        /\ ctorCalls = <<>>
        /\ certController = NilController
        /\ startFuncs = HooksAtStart
        /\ NothingStarted

\* C7 witness: returned on a list that is empty and not nil.
C7_Witness ==
    /\ ctlCalled
    /\ ~GivenCerts.isNil
    /\ GivenCerts.items = <<>>
    /\ ctlRet = "nil"

\* C8: when the constructor fails, initCertController returns the
\* construction error, has called the constructor once, has registered no
\* start function, and nothing is ever started; it returns that error in no
\* other case.
C8_ConstructionError ==
    /\ (ctorCalls # <<>> /\ certController = NilController) =>
            /\ ctlRet = "ConstructionError"
            /\ Len(ctorCalls) = 1
            /\ startFuncs = HooksAtStart
            /\ NothingStarted
    /\ ctlRet = "ConstructionError" => (ctorCalls # <<>> /\ certController = NilController)

\* C8 witness: the constructor failed on a list with a managed entry, and a
\* stop channel has been closed since.
C8_Witness ==
    /\ ctlRet = "ConstructionError"
    /\ ManagedOf(GivenCerts) # <<>>
    /\ stopClosed # {}

\* C9: every call of the registered start function has returned nil without
\* running the controller itself, whatever the state of the run loop: each
\* call has its own goroutine, which is where Run is called.
C9_StartFuncDoesNotBlock ==
    /\ Len(tasks) = Len(hookCalls)
    /\ \A i \in DOMAIN hookCalls :
        /\ hookCalls[i].ret = "nil"
        /\ ~hookCalls[i].ranLoop
        /\ tasks[i].stop = hookCalls[i].stop
        /\ tasks[i].pc \in {"spawned", "running", "exited"}

\* C9 witness: the start function has returned while Run is running and its
\* stop channel is open.
C9_Witness ==
    \E i \in DOMAIN hookCalls :
        /\ hookCalls[i].ret = "nil"
        /\ tasks[i].pc = "running"
        /\ tasks[i].runStop \notin stopClosed

RunCalled(t) == t \in DOMAIN tasks /\ tasks[t].pc \in {"running", "exited"}

\* C10: once the start function has been called with a stop channel, its
\* goroutine eventually calls Run of the server's controller with that
\* channel; a goroutine ends only by Run returning after its stop channel was
\* closed; and once the stop channel is closed the goroutine eventually ends.
C10_RunUntilStop ==
    /\ \A t \in 1..MaxStarts :
        (t \in DOMAIN hookCalls) ~>
            (RunCalled(t) /\ tasks[t].runStop = hookCalls[t].stop
                          /\ tasks[t].controller = Controller(1))
    /\ [][\A t \in DOMAIN tasks :
            (tasks[t].pc # "exited" /\ tasks'[t].pc = "exited") =>
                (tasks[t].pc = "running" /\ tasks[t].runStop = hookCalls[t].stop
                                         /\ tasks[t].runStop \in stopClosed)]_vars
    /\ \A t \in 1..MaxStarts :
        (t \in DOMAIN hookCalls /\ hookCalls[t].stop \in stopClosed) ~>
            (t \in DOMAIN tasks /\ tasks[t].pc = "exited")

\* C10 witness: a goroutine has ended, its stop channel closed, the other
\* stop channel still open.
C10_Witness ==
    \E t \in DOMAIN tasks :
        /\ tasks[t].pc = "exited"
        /\ tasks[t].runStop = hookCalls[t].stop
        /\ stopClosed = {tasks[t].stop}

Failed(op) == \E i \in DOMAIN dnsTrace : dnsTrace[i] = Call(op, FALSE)
Done(op)   == \E i \in DOMAIN dnsTrace : dnsTrace[i] = Call(op, TRUE)

\* C11: when the signing call fails, the invocation has returned the signing
\* error after that one call, and the directory, the key file and the chain
\* file are as they were: nothing was created or written.
C11_SigningError ==
    (Invoked /\ Failed("sign")) =>
        /\ dnsPc = "idle"
        /\ dnsRet = "SigningError"
        /\ Ops(dnsTrace) = <<"stat", "sign">>
        /\ Len(signCalls) = 1
        /\ fsVars = atEntry

\* C11 witness: the signing call failed, the certificate directory absent.
C11_Witness ==
    /\ Invoked
    /\ Failed("sign")
    /\ dnsRet = "SigningError"
    /\ ~dirExists

AllStepsDone ==
    dnsTrace = <<Call("stat", FALSE), Call("sign", TRUE), Call("mkdir", TRUE),
                 Call("writeKey", TRUE), Call("writeCert", TRUE)>>

\* C12: an invocation that found no key file, was given a hostname of at
\* least 2 segments and whose signing call, directory creation and two writes
\* succeeded has returned nil; the directory exists, the key file holds the
\* key and the chain file the chain of the certificate that call returned
\* (the last one issued). A nil return on an absent key file is that case.
C12_Persisted ==
    /\ AllStepsDone =>
        /\ EntryKeyFile = NoFile
        /\ Segments(hostname) >= 2
        /\ dnsPc = "idle"
        /\ dnsRet = "nil"
        /\ dirExists
        /\ signCount >= 1
        /\ keyFile = KeyPEMOf(signCount)
        /\ certFile = CertChainOf(signCount)
    /\ (Returned /\ dnsRet = "nil" /\ EntryKeyFile = NoFile) => AllStepsDone

\* C12 witness: persisted by a second invocation, the first having failed
\* after a certificate was issued to it.
C12_Witness ==
    /\ AllStepsDone
    /\ dnsCalls = 2
    /\ signCount = 2
    /\ keyFile = KeyPEMOf(2)
    /\ certFile = CertChainOf(2)

\* C13: a failure of the directory creation or of a write returns the
\* persistence error and undoes nothing. When the chain write fails, the key
\* file holds the key just written and the directory exists; when the
\* directory creation fails, neither file was written; when the key write
\* fails, the chain file was not written.
C13_NoRollback ==
    /\ Failed("writeCert") =>
        /\ dnsPc = "idle"
        /\ dnsRet = "PersistenceError"
        /\ dirExists
        /\ keyFile = KeyPEMOf(signCount)
        /\ certFile \in {atEntry[3], Truncated}
    /\ Failed("mkdir") =>
        /\ dnsPc = "idle"
        /\ dnsRet = "PersistenceError"
        /\ Ops(dnsTrace) = <<"stat", "sign", "mkdir">>
        /\ fsVars = atEntry
    /\ Failed("writeKey") =>
        /\ dnsPc = "idle"
        /\ dnsRet = "PersistenceError"
        /\ Ops(dnsTrace) = <<"stat", "sign", "mkdir", "writeKey">>
        /\ dirExists
        /\ keyFile \in {atEntry[2], Truncated}
        /\ certFile = atEntry[3]

\* C13 witness: the chain write failed in a directory this invocation made;
\* the key file is there and the chain file is not.
C13_Witness ==
    /\ Failed("writeCert")
    /\ ~atEntry[1]
    /\ dirExists
    /\ keyFile = KeyPEMOf(signCount)
    /\ certFile = NoFile

\* The files hold the key and the chain of the n-th certificate issued.
Holds(key, chain, n) == key = KeyPEMOf(n) /\ chain = CertChainOf(n)
PersistedIn(key, chain) == \E n \in 1..signCount : Holds(key, chain, n)

\* C14: once an invocation has persisted a certificate, every invocation
\* that follows, whatever its hostname, returns nil with no signing call and
\* nothing written; from then on no certificate is issued and the two files
\* keep their content, so the files never hold a second certificate.
C14_Idempotent ==
    /\ []((Invoked /\ PersistedIn(atEntry[2], atEntry[3])) =>
            (dnsPc = "idle" /\ dnsRet = "nil" /\ NoWork))
    /\ [][PersistedIn(keyFile, certFile) =>
            (keyFile' = keyFile /\ certFile' = certFile /\ signCount' = signCount)]_vars
    /\ [](\A n \in 1..signCount :
            (certFile = CertChainOf(n) => keyFile = KeyPEMOf(n)))

\* C14 witness: a second invocation, with a hostname of a single segment,
\* has returned nil on the certificate the first one persisted.
C14_Witness ==
    /\ dnsCalls = 2
    /\ Holds(atEntry[2], atEntry[3], 1)
    /\ Segments(hostname) < 2
    /\ dnsRet = "nil"
    /\ Holds(keyFile, certFile, 1)

FallibleSteps == {"sign", "mkdir", "writeKey", "writeCert"}
ErrorOf(op) == IF op = "sign" THEN "SigningError" ELSE "PersistenceError"

\* C15: in one invocation the signing call, the directory creation, the key
\* write and the chain write are each made at most once; a step that failed
\* is the last step made, and its error is what the invocation has returned;
\* nil is never returned after a failed step.
C15_FailFast ==
    /\ \A op \in FallibleSteps : CountOp(dnsTrace, op) <= 1
    /\ Len(signCalls) = CountOp(dnsTrace, "sign")
    /\ \A i \in DOMAIN dnsTrace :
        (dnsTrace[i].op \in FallibleSteps /\ ~dnsTrace[i].ok) =>
            /\ i = Len(dnsTrace)
            /\ dnsPc = "idle"
            /\ dnsRet = ErrorOf(dnsTrace[i].op)
    /\ dnsRet = "nil" => ~\E op \in FallibleSteps : Failed(op)

\* C15 witness: the key write failed, after a signing call and a directory
\* creation that succeeded; the chain write was not made.
C15_Witness ==
    /\ Failed("writeKey")
    /\ Done("sign")
    /\ Done("mkdir")
    /\ CountOp(dnsTrace, "writeCert") = 0
    /\ dnsRet = "PersistenceError"

\* The positions of the dots of a hostname, and its first and second segment
\* read off those positions.
DotsOf(h) == {i \in DOMAIN h : h[i] = Dot}
FirstDot(h) == CHOOSE i \in DotsOf(h) : \A j \in DotsOf(h) : i <= j
SegmentEnd(h, from) ==
    IF \E j \in DotsOf(h) : j >= from
    THEN (CHOOSE j \in DotsOf(h) : j >= from /\ \A k \in DotsOf(h) : k >= from => j <= k) - 1
    ELSE Len(h)
FirstSegment(h) == SubSeq(h, 1, FirstDot(h) - 1)
SecondSegment(h) == SubSeq(h, FirstDot(h) + 1, SegmentEnd(h, FirstDot(h) + 1))

\* C16: an invocation that reached the signing call has made it exactly once,
\* for the secret named by the first segment of the hostname followed by
\* ".csr.secret", in the namespace named by the second segment, with the
\* Kubernetes CA certificate path; no later segment enters either of them.
C16_SignRequest ==
    /\ (Done("sign") \/ Failed("sign")) <=> Len(signCalls) = 1
    /\ Len(signCalls) <= 1
    /\ \A i \in DOMAIN signCalls :
        /\ DotsOf(hostname) # {}
        /\ signCalls[i].secretName = FirstSegment(hostname) \o <<Dot, "csr", Dot, "secret">>
        /\ signCalls[i].secretNamespace = SecondSegment(hostname)
        /\ signCalls[i].caFilePath = defaultCACertPath

\* C16 witness: the signing call was made for a hostname of three segments.
C16_Witness ==
    /\ Len(signCalls) = 1
    /\ Segments(hostname) = 3
    /\ signCalls[1].secretName = <<"istiod", Dot, "csr", Dot, "secret">>
    /\ signCalls[1].secretNamespace = Str("istio-system")

\* The steps of initDNSCerts in the order of the code, and the three ways an
\* invocation ends.
StepOrder == <<"stat", "sign", "mkdir", "writeKey", "writeCert">>
Skipped   == dnsRet = "nil" /\ dnsTrace = <<Call("stat", TRUE)>>
Persisted == dnsRet = "nil" /\ AllStepsDone
Failure   == dnsRet \in {"InvalidHostnameError", "SigningError", "PersistenceError"}
Outcomes  == {o \in {"skipped", "persisted", "failure"} :
                \/ o = "skipped" /\ Skipped
                \/ o = "persisted" /\ Persisted
                \/ o = "failure" /\ Failure}

\* The shape of an invocation's steps so far.
C17_Order ==
    Invoked =>
        /\ Len(dnsTrace) >= 1
        /\ Len(dnsTrace) <= Len(StepOrder)
        /\ Ops(dnsTrace) = SubSeq(StepOrder, 1, Len(dnsTrace))
        /\ dnsTrace[1].ok <=> EntryKeyFile # NoFile
        /\ EntryKeyFile # NoFile => Skipped
        /\ \A i \in 2..Len(dnsTrace) :
            /\ ~dnsTrace[1].ok
            /\ Segments(hostname) >= 2
            /\ i < Len(dnsTrace) => dnsTrace[i].ok
        /\ ~Done("sign") => fsVars = atEntry
        /\ ~Done("mkdir") => (keyFile = atEntry[2] /\ certFile = atEntry[3])
        /\ ~Done("writeKey") => certFile = atEntry[3]
        /\ IF dnsPc = "idle" THEN Cardinality(Outcomes) = 1 ELSE dnsRet = "none"

\* C17: an invocation makes its steps in the order key file check, signing
\* call, directory creation, key write, chain write, each step only after
\* the one before succeeded; a key file found present ends it as skipped
\* whatever the hostname, the signing call is made only for an absent key
\* file and a hostname of at least 2 segments, nothing is created or written
\* before the signing call has succeeded; a returned invocation is exactly
\* one of skipped, persisted and failed, and every invocation returns.
C17_StateMachine ==
    /\ []C17_Order
    /\ (dnsPc # "idle") ~> (dnsPc = "idle")

\* C17 witness: a second invocation is between its key write and its chain
\* write, the first one having ended without a certificate.
C17_Witness ==
    /\ dnsCalls = 2
    /\ dnsPc = "writeCert"
    /\ Done("writeKey")
    /\ signCount = 1
    /\ keyFile = KeyPEMOf(1)
    /\ certFile = NoFile

\* What the steps an invocation of initDNSCerts has made leave in a file that
\* was old at its entry: the data of a write that succeeded, the old content
\* or a truncated file after one that failed, the old content otherwise.
FileAfter(old, op, data) ==
    IF Done(op) THEN {data}
    ELSE IF Failed(op) THEN {old, Truncated}
    ELSE {old}

\* The directory and the two files are what the steps of initDNSCerts alone
\* made of them.
FilesFromDNSOnly ==
    /\ dirExists = (atEntry[1] \/ Done("mkdir"))
    /\ keyFile \in FileAfter(atEntry[2], "writeKey", signed.keyPEM)
    /\ certFile \in FileAfter(atEntry[3], "writeCert", signed.certChain)

\* The controller and the start functions are what initCertController alone
\* made of them.
ControllerFromCtlOnly ==
    IF ctlRet = "nil" /\ ctorCalls # <<>>
    THEN /\ certController = Controller(1)
         /\ startFuncs = <<OtherStart, CertControllerStart>>
    ELSE /\ certController = NilController
         /\ startFuncs = <<OtherStart>>

\* C18: the two pipelines share no state that either changes. A step of
\* initDNSCerts leaves the controller, the start functions, the goroutines
\* and the stop channels as they are; a step of initCertController, of the
\* start function or of its goroutine leaves the directory, the two files and
\* the state of initDNSCerts as they are. In every interleaving the files
\* are those the steps of initDNSCerts made, and the controller and the start
\* functions those initCertController made.
C18_Independent ==
    /\ [](FilesFromDNSOnly /\ ControllerFromCtlOnly)
    /\ [][/\ (dnsVars' # dnsVars \/ fsVars' # fsVars) => ctlVars' = ctlVars
          /\ ctlVars' # ctlVars => (fsVars' = fsVars /\ dnsVars' = dnsVars)]_vars

\* C18 witness: the goroutine of the controller runs while initDNSCerts is
\* between its key write and its chain write.
C18_Witness ==
    /\ dnsPc = "writeCert"
    /\ keyFile = KeyPEMOf(1)
    /\ certController = Controller(1)
    /\ \E t \in DOMAIN tasks : tasks[t].pc = "running"

\* C19, as claimed: from an empty certificate directory, whenever an
\* invocation has returned nil, the key file and the chain file hold the key
\* and the chain of one and the same certificate issued by the signing call.
C19_AsClaimed ==
    (Returned /\ dnsRet = "nil") => PersistedIn(keyFile, certFile)

\* C19, the failing case: the first invocation wrote the key and failed on
\* the chain write; the second found the key file, and has returned nil with
\* no chain file.
C19_KeyWithoutChain ==
    /\ dnsCalls = 2
    /\ Returned
    /\ dnsRet = "nil"
    /\ Ops(dnsTrace) = <<"stat">>
    /\ keyFile = KeyPEMOf(1)
    /\ certFile = NoFile

\* The strictly increasing maps from 1..n into the indices of the given
\* certificate list.
IncreasingInto(n, items) ==
    {f \in [1..n -> DOMAIN items] : \A i, j \in 1..n : i < j => f[i] < f[j]}
CertControllerStarts == {i \in DOMAIN startFuncs : startFuncs[i] = CertControllerStart}

\* The three lists of a constructor call have one length and, index by
\* index, are the secret name, the comma-joined DNS names and the caller's
\* namespace of one entry of the given list, the entries in input order; the
\* constructor is called at most once, and every call of the start function
\* has started one goroutine.
AlignedLists ==
    /\ Len(ctorCalls) <= 1
    /\ \A k \in DOMAIN ctorCalls :
        LET call == ctorCalls[k]
            n    == Len(call.secretNames)
        IN  /\ Len(call.dnsNames) = n
            /\ Len(call.namespaces) = n
            /\ \A i \in 1..n : call.namespaces[i] = GivenNamespace
            /\ \E f \in IncreasingInto(n, GivenCerts.items) :
                \A i \in 1..n :
                    /\ call.secretNames[i] = GivenCerts.items[f[i]].secretName
                    /\ call.dnsNames[i] = Join(GivenCerts.items[f[i]].dnsNames, Comma)
    /\ Len(tasks) = Len(hookCalls)
    /\ \A t \in DOMAIN tasks : tasks[t].stop = hookCalls[t].stop

\* C20, as claimed: the three lists are aligned, the constructor is called
\* at most once, and every invocation that has returned nil has registered
\* exactly one start function.
C20_AsClaimed ==
    /\ AlignedLists
    /\ (ctlCalled /\ ctlRet = "nil") => Cardinality(CertControllerStarts) = 1

\* C20, amended: the three lists are aligned, the constructor is called at
\* most once, and an invocation has registered exactly one start function
\* when its constructor call succeeded and none otherwise: none when the
\* constructor failed, and none when it returned nil for a certificate list
\* that is nil or empty.
C20_Aligned ==
    /\ AlignedLists
    /\ Cardinality(CertControllerStarts) =
           IF ctlRet = "nil" /\ ctorCalls # <<>> THEN 1 ELSE 0
    /\ (ctlCalled /\ NoCertificates(GivenCerts)) =>
           (ctlRet = "nil" /\ ctorCalls = <<>>)

\* C20 witness: the second of two entries, which has no secret name, is left out of
\* all three lists, and the start function registered after the call has
\* started its goroutine.
C20_Witness ==
    /\ ctorCalls # <<>>
    /\ GivenCerts.items = <<Entry(<<SvcA, SvcB>>, Str("cert-b")), Entry(<<SvcA>>, Empty)>>
    /\ ctorCalls[1].secretNames = <<Str("cert-b")>>
    /\ Len(ctorCalls[1].namespaces) = 1
    /\ Cardinality(CertControllerStarts) = 1
    /\ Len(tasks) = 1

====
